---- MODULE Spec2Model ----
(***************************************************************************)
(* AeroMinds frontend: the upload page (Home, page.jsx) and the 3D viewer  *)
(* (Viewer3D.jsx).  The page holds four pieces of React state and talks to *)
(* the backend through one fetch per click; the viewer builds a displaced  *)
(* plane from the image and the depth map.                                 *)
(***************************************************************************)
EXTENDS Integers, Sequences, FiniteSets, TLC

VARIABLES
    selectedFile,   \* useState(null): the file chosen in the file input
    previewUrl,     \* useState(null): blob URL of the chosen file
    depthUrl,       \* useState(null): URL of the depth map shown
    loading,        \* useState(false)
    inflight,       \* the handleUpload calls suspended at an await
    nextBlob,       \* URL.createObjectURL hands out a fresh URL per call
    nextReq,        \* number of handleUpload calls that started a fetch
    credentials,    \* backend configuration: GEMINI_API_KEY present
    lastAlert,      \* the last window.alert raised, None if none
    lastDone,       \* the last handleUpload call that ran to its end
    lastEvent,      \* the handler that ran last
    viewer,         \* TRUE while <Viewer3D> is mounted and returns a Canvas
    camera,         \* the PerspectiveCamera of the mounted Canvas, None if none
    cameraCount,    \* number of cameras created so far
    lastCam,        \* the camera discarded by the last unmount, None if none
    scenePair,      \* <<imageUrl, depthUrl>> whose mesh Scene has committed
    texCache,       \* useLoader cache: pair of URLs -> the two textures' flipY
    effectPending,  \* the flipY effect is scheduled and has not run
    depthImg,       \* Scene input: the depth map's texels (row 0 = top)
    geometry,       \* Scene: the PlaneGeometry built by useMemo, None before
    mesh            \* Scene: the displaced mesh in world space, None before

pageVars == <<selectedFile, previewUrl, depthUrl, loading, inflight, nextBlob,
              nextReq, credentials, lastAlert, lastDone, lastEvent>>
viewVars == <<viewer, camera, cameraCount, lastCam, scenePair, texCache,
              effectPending>>
sceneVars == <<depthImg, geometry, mesh>>
vars == <<pageVars, viewVars, sceneVars>>

\* null, for a file, for a URL (a sequence of parts) and for an object
Null == "null"
NoUrl == <<>>
None == [none |-> TRUE]

\* ---------------------------------------------------------------- bounds
MaxSelections == 2
MaxUploads == 2

\* The files the user can pick.  The file input's accept="image/*" is a hint
\* only, so a file that does not decode as an image can be picked too.
Files == {"a.png", "b.png", "bad.png"}
WellFormed(file) == file # "bad.png"

\* ------------------------------------------------------------- the backend
Hosts == {"localhost", "127.0.0.1"}

\* POST /upload: the depth estimator behind the ingestion boundary.
Estimate(file, creds, primaryOk) ==
    IF ~WellFormed(file) THEN [ok |-> FALSE, path |-> "none"]
    ELSE IF creds /\ primaryOk THEN [ok |-> TRUE, path |-> "primary"]
    ELSE [ok |-> TRUE, path |-> "fallback"]

BackendUpload(file, creds, primaryOk, host) ==
    LET e == Estimate(file, creds, primaryOk)
        remote == IF ~creds THEN "skipped"
                  ELSE IF primaryOk THEN "ok" ELSE "failed" IN
    IF e.ok
    THEN [status |-> 200, path |-> e.path, remote |-> remote,
          depth_map_url |-> <<host, "processed", file>>]
    ELSE [status |-> 400, path |-> e.path, remote |-> remote,
          depth_map_url |-> NoUrl]

\* ---------------------------------------------------------------- the page
\* String.prototype.replace(pattern, by) with a string pattern: the first
\* occurrence only.
RECURSIVE ReplaceFirst(_, _, _)
ReplaceFirst(s, pat, by) ==
    IF s = <<>> THEN <<>>
    ELSE IF Head(s) = pat THEN <<by>> \o Tail(s)
    ELSE <<Head(s)>> \o ReplaceFirst(Tail(s), pat, by)

\* response.ok
ResponseOkInverted(status) == ~(status >= 200 /\ status <= 299)
ResponseOk(status) == status >= 200 /\ status <= 299

\* disabled={!selectedFile || loading}
UploadDisabled == selectedFile = Null \/ loading

\* {depthUrl && previewUrl ? <Viewer3D .../> : placeholder}, and Viewer3D's own
\* guard: if (!imageUrl || !depthUrl) return null
ViewerShown(image, depth) ==
    /\ depth # NoUrl /\ image # NoUrl
    /\ ~(image = NoUrl \/ depth = NoUrl)

\* <PerspectiveCamera makeDefault position={[0, 12, 12]} />
CameraInit == <<0, 12, 12>>

\* React commits the new page state: Viewer3D mounts or unmounts with the
\* condition, a mounting Canvas creates its camera, an unmounting one discards
\* it, and Scene suspends as soon as its pair of URLs is not the committed one.
Commit(image, depth) ==
    /\ viewer' = ViewerShown(image, depth)
    /\ IF viewer' /\ ~viewer
       THEN /\ camera' = [id |-> cameraCount + 1, pos |-> CameraInit]
            /\ cameraCount' = cameraCount + 1
            /\ UNCHANGED lastCam
       ELSE IF ~viewer' /\ viewer
       THEN /\ camera' = None
            /\ lastCam' = camera
            /\ UNCHANGED cameraCount
       ELSE UNCHANGED <<camera, cameraCount, lastCam>>
    /\ scenePair' = IF viewer' /\ scenePair = <<image, depth>>
                    THEN scenePair ELSE NoUrl
    /\ UNCHANGED <<texCache, effectPending>>

\* setDepthUrl(null) in handleFileChange
DepthAfterFileChangeKept(depth) == depth
DepthAfterFileChange(depth) == NoUrl

\* handleFileChange with event.target.files[0] a file
HandleFileChange(file) ==
    /\ ~effectPending
    /\ nextBlob < MaxSelections
    /\ selectedFile' = file
    /\ previewUrl' = <<"blob", nextBlob + 1>>
    /\ nextBlob' = nextBlob + 1
    /\ depthUrl' = DepthAfterFileChange(depthUrl)
    /\ lastEvent' = "fileChange"
    /\ Commit(previewUrl', depthUrl')
    /\ UNCHANGED <<loading, inflight, nextReq, credentials, lastAlert, lastDone>>
    /\ UNCHANGED sceneVars

\* handleFileChange with the dialog cancelled: files[0] is undefined
HandleFileChangeNone ==
    /\ ~effectPending
    /\ lastEvent' = "fileChangeNone"
    /\ UNCHANGED <<selectedFile, previewUrl, depthUrl, loading, inflight,
                   nextBlob, nextReq, credentials, lastAlert, lastDone>>
    /\ UNCHANGED viewVars
    /\ UNCHANGED sceneVars

\* handleUpload up to its first await
HandleUpload ==
    /\ lastEvent' = "upload"
    /\ IF selectedFile = Null
       THEN UNCHANGED <<loading, inflight, nextReq>>
       ELSE /\ loading' = TRUE
            /\ inflight' = inflight \cup
                   {[id |-> nextReq + 1, file |-> selectedFile,
                     phase |-> "fetch", data |-> NoUrl, path |-> "none",
                     remote |-> "pending"]}
            /\ nextReq' = nextReq + 1
    /\ UNCHANGED <<selectedFile, previewUrl, depthUrl, nextBlob, credentials,
                   lastAlert, lastDone>>
    /\ UNCHANGED viewVars
    /\ UNCHANGED sceneVars

\* a click on the upload button
ClickUpload ==
    /\ ~effectPending
    /\ nextReq < MaxUploads
    /\ ~UploadDisabled
    /\ HandleUpload

Done(r, kind) ==
    [id |-> r.id, file |-> r.file, kind |-> kind, path |-> r.path,
     remote |-> r.remote,
     wellFormed |-> WellFormed(r.file),
     superseded |-> r.file # selectedFile]

\* fetch resolves with the backend's response; an ok response goes on to
\* await response.json(), any other status alerts and ends in finally
FetchResolve(r, primaryOk, host) ==
    /\ ~effectPending
    /\ r.phase = "fetch"
    /\ LET resp == BackendUpload(r.file, credentials, primaryOk, host) IN
       IF ResponseOk(resp.status)
       THEN /\ inflight' = (inflight \ {r}) \cup
                   {[r EXCEPT !.phase = "json", !.data = resp.depth_map_url,
                              !.path = resp.path, !.remote = resp.remote]}
            /\ UNCHANGED <<loading, lastAlert, lastDone>>
       ELSE /\ lastAlert' = [kind |-> "status", status |-> resp.status,
                             file |-> r.file,
                             superseded |-> r.file # selectedFile]
            /\ lastDone' = Done([r EXCEPT !.path = resp.path,
                                       !.remote = resp.remote], "status")
            /\ loading' = FALSE
            /\ inflight' = inflight \ {r}
    /\ lastEvent' = "fetchResolve"
    /\ UNCHANGED <<selectedFile, previewUrl, depthUrl, nextBlob, nextReq,
                   credentials>>
    /\ UNCHANGED viewVars
    /\ UNCHANGED sceneVars

\* response.json() resolves: setDepthUrl(data.depth_map_url.replace(...)),
\* then finally
JsonResolve(r) ==
    /\ ~effectPending
    /\ r.phase = "json"
    /\ depthUrl' = ReplaceFirst(r.data, "localhost", "127.0.0.1")
    /\ loading' = FALSE
    /\ inflight' = inflight \ {r}
    /\ lastDone' = Done(r, "ok")
    /\ lastEvent' = "jsonResolve"
    /\ Commit(previewUrl, depthUrl')
    /\ UNCHANGED <<selectedFile, previewUrl, nextBlob, nextReq, credentials,
                   lastAlert>>
    /\ UNCHANGED sceneVars

\* fetch or response.json() rejects: catch alerts, then finally
RequestReject(r) ==
    /\ ~effectPending
    /\ lastAlert' = [kind |-> "network", status |-> 0, file |-> r.file,
                     superseded |-> r.file # selectedFile]
    /\ lastDone' = Done(r, "network")
    /\ loading' = FALSE
    /\ inflight' = inflight \ {r}
    /\ lastEvent' = "reject"
    /\ UNCHANGED <<selectedFile, previewUrl, depthUrl, nextBlob, nextReq,
                   credentials>>
    /\ UNCHANGED viewVars
    /\ UNCHANGED sceneVars

\* -------------------------------------------------------------- the viewer
\* new THREE.Texture(): flipY defaults to true
FreshTextures == [texture |-> TRUE, depthMap |-> TRUE]

\* useLoader(THREE.TextureLoader, [imageUrl, depthUrl]) resolves and Scene
\* commits its mesh; the cache is keyed by the whole list of URLs, and the
\* effect with deps [texture, depthMap] is scheduled
SceneRender ==
    /\ ~effectPending
    /\ viewer
    /\ scenePair = NoUrl
    /\ LET pair == <<previewUrl, depthUrl>> IN
       /\ texCache' = IF pair \in DOMAIN texCache THEN texCache
                      ELSE texCache @@ (pair :> FreshTextures)
       /\ scenePair' = pair
    /\ effectPending' = TRUE
    /\ lastEvent' = "sceneRender"
    /\ UNCHANGED <<selectedFile, previewUrl, depthUrl, loading, inflight,
                   nextBlob, nextReq, credentials, lastAlert, lastDone>>
    /\ UNCHANGED <<viewer, camera, cameraCount, lastCam>>
    /\ UNCHANGED sceneVars

\* the effect body: texture.flipY = false; depthMap.flipY = false
FlipFixTextureOnly(t) == [t EXCEPT !.texture = FALSE]
FlipFix(t) == [t EXCEPT !.texture = FALSE, !.depthMap = FALSE]

FlipEffect ==
    /\ effectPending
    /\ texCache' = [texCache EXCEPT ![scenePair] = FlipFix(@)]
    /\ effectPending' = FALSE
    /\ lastEvent' = "flipEffect"
    /\ UNCHANGED <<selectedFile, previewUrl, depthUrl, loading, inflight,
                   nextBlob, nextReq, credentials, lastAlert, lastDone>>
    /\ UNCHANGED <<viewer, camera, cameraCount, lastCam, scenePair>>
    /\ UNCHANGED sceneVars

\* OrbitControls: a drag turns the camera a quarter turn about the target's
\* vertical axis; the distance to the target is kept
Orbit ==
    /\ ~effectPending
    /\ viewer
    /\ camera' = [camera EXCEPT !.pos = <<@[3], @[2], -@[1]>>]
    /\ lastEvent' = "orbit"
    /\ UNCHANGED <<selectedFile, previewUrl, depthUrl, loading, inflight,
                   nextBlob, nextReq, credentials, lastAlert, lastDone>>
    /\ UNCHANGED <<viewer, cameraCount, lastCam, scenePair, texCache,
                   effectPending>>
    /\ UNCHANGED sceneVars

\* --------------------------------------------------------------- the scene
\* new THREE.PlaneGeometry(10, 10, 512, 512)
PlaneSize == 10
Resolution == 512

\* A depth map is TexSize x TexSize texels, texel <<row, col>> with row 1 the
\* top row of the image; a texel is an 8-bit grey level (255 = white).
TexSize == 2
Texels == (1..TexSize) \X (1..TexSize)
Levels == {0, 51, 128, 255}

\* The depth maps drawn: one level everywhere but at one texel (a uniform map
\* when both levels agree, a single bright corner otherwise).
DepthImages ==
    { [t \in Texels |-> IF t = spot THEN fg ELSE bg] :
        spot \in Texels, fg \in Levels, bg \in Levels }

Abs(n) == IF n < 0 THEN -n ELSE n
Min(a, b) == IF a < b THEN a ELSE b

\* PlaneGeometry's loops: for iy < gridY1, for ix < gridX1, push one vertex
PlaneVertexCountSegments(widthSegments, heightSegments) ==
    widthSegments * heightSegments
PlaneVertexCount(widthSegments, heightSegments) ==
    LET gridX1 == widthSegments + 1
        gridY1 == heightSegments + 1
    IN  gridX1 * gridY1

\* the geometry useMemo builds; every vertex has normal (0, 0, 1)
PlaneGeometry(width, height, widthSegments, heightSegments) ==
    [width |-> width, height |-> height,
     gridX |-> widthSegments, gridY |-> heightSegments,
     count |-> PlaneVertexCount(widthSegments, heightSegments),
     normal |-> <<0, 0, 1>>]

\* displacementScale: 2.5 and displacementBias: -0.5, in tenths
DisplacementScale == 25
DisplacementBias == -5

\* texture2D(displacementMap, uv).x * displacementScale + displacementBias
\* for a texel of grey level `level`, in units of 1/2550
Displacement(level) == level * DisplacementScale + DisplacementBias * 255

\* rotation={[-Math.PI / 2, Math.PI, 0]}, in quarter turns
MeshRotation == <<-1, 2, 0>>

CosQ(k) == CASE k % 4 = 0 -> 1 [] k % 4 = 2 -> -1 [] OTHER -> 0
SinQ(k) == CASE k % 4 = 1 -> 1 [] k % 4 = 3 -> -1 [] OTHER -> 0

\* Matrix4.makeRotationFromEuler, order XYZ: the rows of the 3x3 part
RotationMatrix(euler) ==
    LET a == CosQ(euler[1])  b == SinQ(euler[1])
        c == CosQ(euler[2])  d == SinQ(euler[2])
        e == CosQ(euler[3])  f == SinQ(euler[3])
    IN  << << c * e,             -(c * f),           d        >>,
           << a * f + b * e * d,  a * e - b * f * d, -(b * c) >>,
           << b * f - a * e * d,  b * e + a * f * d,  a * c   >> >>

Apply(m, v) ==
    [i \in 1..3 |-> m[i][1] * v[1] + m[i][2] * v[2] + m[i][3] * v[3]]

\* The texel a grid index samples (nearest texel, clamped at the far edge)
TexelIndex(i, grid) == Min(TexSize, ((i * TexSize) \div grid) + 1)

\* Vertex <<ix, iy>> has uv = (ix / gridX, 1 - iy / gridY).  With flipY the
\* image's top row is at v = 1, without it at v = 0.
SampledTexel(geo, ix, iy, flipY) ==
    << IF flipY THEN TexelIndex(iy, geo.gridY)
                ELSE TexelIndex(geo.gridY - iy, geo.gridY),
       TexelIndex(ix, geo.gridX) >>

\* The vertices followed one by one: the corners and the centre of the grid
ProbeIndices(grid) == {0, grid \div 2, grid}
Probes(geo) == ProbeIndices(geo.gridX) \X ProbeIndices(geo.gridY)

\* Local position of vertex <<ix, iy>> in units of 1/2550:
\* x = ix * segment_width - width_half, y = -(iy * segment_height - height_half)
LocalPosition(geo, ix, iy) ==
    << ((ix * geo.width * 2 - geo.width * geo.gridX) * 1275) \div geo.gridX,
       -(((iy * geo.height * 2 - geo.height * geo.gridY) * 1275) \div geo.gridY),
       0 >>

\* How many grid indices 0..grid sample texel index t
IndexCount(t, grid) == Cardinality({i \in 0..grid : TexelIndex(i, grid) = t})

RECURSIVE SumOver(_, _)
SumOver(S, f) ==
    IF S = {} THEN 0
    ELSE LET x == CHOOSE y \in S : TRUE IN f[x] + SumOver(S \ {x}, f)

\* The mesh as rendered: material.displacementMap moves every vertex along its
\* normal, and the mesh's rotation takes the result to world space.
DisplacedMesh(geo, img, flipY, rotation) ==
    LET m == RotationMatrix(rotation)
        disp == [p \in Probes(geo) |->
                    Displacement(img[SampledTexel(geo, p[1], p[2], flipY)])]
        rows == [t \in 1..TexSize |->
                    Cardinality({iy \in 0..geo.gridY :
                        SampledTexel(geo, 0, iy, flipY)[1] = t})]
        cols == [t \in 1..TexSize |-> IndexCount(t, geo.gridX)]
    IN  [disp |-> disp,
         flat |-> [p \in Probes(geo) |->
                     Apply(m, LocalPosition(geo, p[1], p[2]))],
         world |-> [p \in Probes(geo) |->
                     Apply(m, [i \in 1..3 |->
                         LocalPosition(geo, p[1], p[2])[i]
                           + geo.normal[i] * disp[p]])],
         total |-> SumOver(Texels,
                     [t \in Texels |->
                         rows[t[1]] * cols[t[2]] * Displacement(img[t])]),
         count |-> SumOver(Texels,
                     [t \in Texels |-> rows[t[1]] * cols[t[2]]])]

\* useMemo(() => new THREE.PlaneGeometry(10, 10, 512, 512), [])
BuildGeometry ==
    /\ geometry = None
    /\ geometry' = PlaneGeometry(PlaneSize, PlaneSize, Resolution, Resolution)
    /\ UNCHANGED <<depthImg, mesh>>
    /\ UNCHANGED pageVars
    /\ UNCHANGED viewVars

\* <mesh geometry={geometry} material={material} rotation={...} /> is drawn
RenderMesh ==
    /\ geometry # None
    /\ mesh = None
    /\ mesh' = DisplacedMesh(geometry, depthImg.texels, depthImg.flipY,
                             MeshRotation)
    /\ UNCHANGED <<depthImg, geometry>>
    /\ UNCHANGED pageVars
    /\ UNCHANGED viewVars

\* a new depthMap arrives: the material is rebuilt, the geometry is kept
ChangeDepthMap(img, flipY) ==
    /\ mesh # None
    /\ depthImg' = [texels |-> img, flipY |-> flipY]
    /\ depthImg' # depthImg
    /\ mesh' = None
    /\ UNCHANGED geometry
    /\ UNCHANGED pageVars
    /\ UNCHANGED viewVars

\* ------------------------------------------------------- specifications
PageInit ==
    /\ selectedFile = Null
    /\ previewUrl = NoUrl
    /\ depthUrl = NoUrl
    /\ loading = FALSE
    /\ inflight = {}
    /\ nextBlob = 0
    /\ nextReq = 0
    /\ lastAlert = None
    /\ lastDone = None
    /\ lastEvent = "mount"
    /\ viewer = FALSE
    /\ camera = None
    /\ cameraCount = 0
    /\ lastCam = None
    /\ scenePair = NoUrl
    /\ texCache = <<>>
    /\ effectPending = FALSE

Init ==
    /\ PageInit
    /\ credentials \in BOOLEAN
    /\ depthImg = [texels |-> [t \in Texels |-> 0], flipY |-> TRUE]
    /\ geometry = None
    /\ mesh = None

Next ==
    \/ \E file \in Files : HandleFileChange(file)
    \/ HandleFileChangeNone
    \/ ClickUpload
    \/ \E r \in inflight, primaryOk \in BOOLEAN, host \in Hosts :
           FetchResolve(r, primaryOk, host)
    \/ \E r \in inflight : JsonResolve(r)
    \/ \E r \in inflight : RequestReject(r)
    \/ SceneRender
    \/ FlipEffect
    \/ Orbit

Spec == Init /\ [][Next]_vars

\* Scene alone, over every depth map drawn
SceneInit ==
    /\ PageInit
    /\ credentials = TRUE
    /\ depthImg \in [texels : DepthImages, flipY : BOOLEAN]
    /\ geometry = None
    /\ mesh = None

SceneNext ==
    \/ BuildGeometry
    \/ RenderMesh
    \/ \E img \in DepthImages, flipY \in BOOLEAN : ChangeDepthMap(img, flipY)

SceneSpec == SceneInit /\ [][SceneNext]_vars

\* ------------------------------------------------------------- the claims
\* C1: whenever a depth map is shown, it is the depth map the backend
\* returned for the file currently selected.
C1_DepthIsOfSelectedFile ==
    depthUrl # NoUrl => depthUrl[3] = selectedFile

\* C2: at most one upload is in flight, and an upload in flight is always the
\* upload of the file currently selected (a new selection aborts the old
\* sequence and restarts for the new image).
C2_OneActiveSequenceForSelection ==
    /\ Cardinality(inflight) <= 1
    /\ \A r \in inflight : r.file = selectedFile

\* C3: no alert is ever raised for an upload whose file the user had already
\* replaced by another selection.
C3_NoAlertForSuperseded ==
    lastAlert # None => ~lastAlert.superseded

C5_BrightMovesUp ==
    mesh # None =>
        \A p \in DOMAIN mesh.disp :
            mesh.disp[p] > 0 => mesh.world[p][2] > mesh.flat[p][2]

\* C6: whenever Scene has a mesh committed, its colour texture and its depth
\* map have the same flipY.
C6_SameFlipY ==
    scenePair # NoUrl =>
        texCache[scenePair].texture = texCache[scenePair].depthMap

\* the depth URL changed under an unchanged image URL, and the effect has run
\* for the new pair
C6_Witness ==
    /\ scenePair # NoUrl
    /\ ~effectPending
    /\ texCache[scenePair].texture = FALSE
    /\ \E q \in DOMAIN texCache :
          q # scenePair /\ q[1] = scenePair[1] /\ texCache[q].depthMap = FALSE

\* C7: the mean displacement over all vertices of the rendered mesh is within
\* 1/100 of zero (|total| / count <= 25.5 in units of 1/2550).
C7_MeanDisplacementCentred ==
    mesh # None => Abs(mesh.total) <= (51 * mesh.count) \div 2

\* C8 as stated: the geometry has Resolution squared vertices.
C8_CountIsResolutionSquared ==
    geometry # None => geometry.count = Resolution * Resolution

\* C8 as amended: the geometry has (Resolution + 1) squared vertices, and the
\* rendered mesh displaces exactly that many.
C8_CountIsSegmentsPlusOneSquared ==
    /\ geometry # None => geometry.count = (Resolution + 1) * (Resolution + 1)
    /\ mesh # None => mesh.count = geometry.count

C8_Witness ==
    /\ geometry # None
    /\ mesh # None
    /\ mesh.count = 263169

\* C9: a viewer displayed again after an earlier one has the camera the
\* earlier one had.
C9_SameCameraAcrossRegeneration ==
    (camera # None /\ lastCam # None) => camera.id = lastCam.id

\* C10: the viewer is rendered exactly when both URLs are set; right after
\* handleFileChange accepted a file no depth map is set and no viewer is
\* rendered; handleFileChange without a file changes nothing of the page.
C10_ViewerIffBothUrls ==
    /\ [](viewer <=> (previewUrl # NoUrl /\ depthUrl # NoUrl))
    /\ [](lastEvent = "fileChange" => (depthUrl = NoUrl /\ ~viewer))
    /\ [][lastEvent' = "fileChangeNone" =>
            UNCHANGED <<selectedFile, previewUrl, depthUrl, loading, inflight,
                        viewer, camera, scenePair>>]_vars

\* a file is accepted while a model is on display
C10_Witness ==
    /\ lastEvent = "fileChange"
    /\ lastCam # None
    /\ camera = None
    /\ previewUrl # NoUrl

\* The page under the scheduling the browser guarantees: React runs a
\* scheduled effect and commits a resolved Scene, and a handleUpload call
\* whose response has arrived goes on to its end.  Nothing makes a pending
\* fetch settle: the call sets no timeout and no AbortController, so neither
\* FetchResolve nor RequestReject is fair.
LiveSpec ==
    /\ Spec
    /\ WF_vars(FlipEffect)
    /\ WF_vars(SceneRender)
    /\ WF_vars(\E r \in inflight : JsonResolve(r))

\* C11: whenever loading is true it is eventually false again, and a
\* handleUpload call without a selected file starts no request and leaves
\* loading as it was.
C11_LoadingEventuallyFalse ==
    /\ loading ~> ~loading
    /\ [][(lastEvent' = "upload" /\ selectedFile = Null) =>
            UNCHANGED <<loading, inflight, nextReq>>]_vars

====
